---- MODULE Spec2Model ----
(***************************************************************************)
(* Order lifecycle and payment settlement of the concert-ticketing         *)
(* backend: REST routes (orders, payments, tickets), the Midtrans webhook  *)
(* and the GraphQL mutations, over the relational store.                   *)
(***************************************************************************)
EXTENDS Integers, Sequences, FiniteSets, TLC

VARIABLES ticketTypes, orders, payments, tickets, now, last, deliveries,
          requests

vars == <<ticketTypes, orders, payments, tickets, now, last, deliveries,
          requests>>

----------------------------------------------------------------------------
(* Bounds of the model *)

MaxOrders == 1
MaxItems == 1
MaxQty == 2
MaxTickets == 2
MaxTicks == 2
QuotaTotal0 == 1

----------------------------------------------------------------------------
(* Values *)

Undef == "undefined"

\* expiresAt: new Date(Date.now() + 15 * 60 * 1000)
OrderTTL == 15 * 60 * 1000

PriceVIP == 2500000
PriceRegular == 750000
Prices == {PriceVIP, PriceRegular}

Users == {"u1", "u2"}
Concerts == {"c1", "c2"}
TicketTypeIds == {"A", "B"}
UnknownTicketType == "Z"

OrderStatuses ==
  {"PENDING", "AWAITING_PAYMENT", "PAID", "CANCELLED", "EXPIRED", "REFUNDED"}
TicketStatuses == {"ISSUED", "VOID", "USED"}
PaymentStatuses == {"PENDING", "SETTLED", "FAILED", "EXPIRED", "CANCELLED"}

\* column defaults of the relational schema
DefaultOrderStatus == "PENDING"
DefaultTicketStatus == "ISSUED"
DefaultQuotaSold == 0

TransactionStatuses == {"settlement", "pending", "cancel", "expire", "refund"}
FraudStatuses == {Undef, "accept", "deny"}

Tokens == {"snap-1"}

----------------------------------------------------------------------------
(* Helpers *)

RECURSIVE SumSubtotals(_)
SumSubtotals(items) ==
  IF items = <<>> THEN 0
  ELSE Head(items).subtotal + SumSubtotals(Tail(items))

RECURSIVE SumQty(_)
SumQty(items) ==
  IF items = <<>> THEN 0
  ELSE Head(items).qty + SumQty(Tail(items))

\* an optional value: <<>> when absent, <<v>> when present
Optional(S) == {<<>>} \cup {<<v>> : v \in S}

SeqsUpTo(S, n) == UNION {[1..k -> S] : k \in 0..n}

OrderIds == DOMAIN orders

\* prisma.order.findFirst({ where: { midtransOrderId } })
FindByMidtransOrderId(ref) == {o \in OrderIds : orders[o].midtransOrderId = ref}

TicketsOfOrder(o) == {c \in DOMAIN tickets : tickets[c].orderId = o}
TicketsOfType(t) == {c \in DOMAIN tickets : tickets[c].ticketTypeId = t}

\* a handler's response: status code, what it sent to the gateway, and the
\* data of the response body; req is the request body it answers, kept for
\* the webhook
ResponseWith(op, id, code, sent, body) ==
  [op |-> op, id |-> id, code |-> code, sent |-> sent, body |-> body,
   req |-> <<>>]

Response(op, id, code, sent) == ResponseWith(op, id, code, sent, <<>>)

\* the webhook requests that can be in flight at the same time
Deliveries == {"d1", "d2"}

\* a webhook request that has not arrived yet
Idle == [pc |-> "idle", n |-> <<>>, o |-> 0, status |-> Undef, k |-> 0,
         overlapped |-> FALSE]

\* the REST requests that can be in flight at the same time
Requests == {"r1", "r2"}

\* a REST request that has not arrived yet; code is the status it answered
NoRequest == [pc |-> "idle", op |-> Undef, id |-> 0, code |-> 0]

----------------------------------------------------------------------------
Init ==
  /\ ticketTypes =
       [t \in TicketTypeIds |->
          [concertId |-> IF t = "A" THEN "c1" ELSE "c2",
           price |-> IF t = "A" THEN PriceVIP ELSE PriceRegular,
           quotaTotal |-> QuotaTotal0,
           quotaSold |-> DefaultQuotaSold]]
  /\ orders = <<>>
  /\ payments = <<>>
  /\ tickets = <<>>
  /\ now = 0
  /\ last = Response("init", 0, 0, <<>>)
  /\ deliveries = [d \in Deliveries |-> Idle]
  /\ requests = [r \in Requests |-> NoRequest]

Tick ==
  /\ now < MaxTicks * OrderTTL
  /\ now' = now + OrderTTL
  /\ last' = Response("tick", 0, 0, <<>>)
  /\ UNCHANGED <<ticketTypes, orders, payments, tickets, deliveries, requests>>

----------------------------------------------------------------------------
(* Request inputs *)

RequestOrderIds == 1..MaxOrders
RequestTicketCodes == 1..MaxTickets
UnknownMidtransOrderId == 0

ItemInput == [ticketTypeId : TicketTypeIds \cup {UnknownTicketType}, qty : 1..MaxQty]
ItemInputs == SeqsUpTo(ItemInput, MaxItems)

\* the caller of Mutation.createOrder supplies every amount itself
GqlOrderInputs ==
  [userId : Users, concertId : {"c1"}, grossAmount : {PriceRegular},
   expiresAt : {now + OrderTTL},
   items : {<<[ticketTypeId |-> "A", qty |-> 1, unitPrice |-> PriceRegular,
               subtotal |-> st]>> : st \in {0, PriceRegular}}]

\* the provider reports a fraud verdict with card settlements only
Notifications ==
  {n \in [order_id : RequestOrderIds \cup {UnknownMidtransOrderId},
          transaction_status : TransactionStatuses,
          fraud_status : FraudStatuses] :
     n.fraud_status # Undef => n.transaction_status = "settlement"}

----------------------------------------------------------------------------
(* REST: POST /orders *)

\* items.map(...): unitPrice = Number(ticketType.price); subtotal = unitPrice * item.qty
SnapshotItem(item) ==
  [ticketTypeId |-> item.ticketTypeId,
   qty |-> item.qty,
   unitPrice |-> ticketTypes[item.ticketTypeId].price,
   subtotal |-> ticketTypes[item.ticketTypeId].price * item.qty]

SnapshotItems(items) == [i \in DOMAIN items |-> SnapshotItem(items[i])]

NewOrder(userId, concertId, grossAmount, expiresAt, items) ==
  [userId |-> userId,
   concertId |-> concertId,
   midtransOrderId |-> Len(orders) + 1,
   grossAmount |-> grossAmount,
   expiresAt |-> expiresAt,
   status |-> DefaultOrderStatus,
   orderItems |-> items]

\* the response of POST /orders, with the req.body it answers
CreateOrderResponse(id, code, concertId, items) ==
  [Response("createOrder", id, code, <<>>)
     EXCEPT !.req = <<[concertId |-> concertId, items |-> items]>>]

CreateOrderREST(userId, concertId, items) ==
  /\ IF concertId = Undef \/ items = <<>>
       THEN /\ last' = CreateOrderResponse(0, 400, concertId, items)
            /\ UNCHANGED <<orders, payments>>
     ELSE IF \E i \in DOMAIN items : items[i].ticketTypeId \notin DOMAIN ticketTypes
       THEN /\ last' = CreateOrderResponse(0, 400, concertId, items)
            /\ UNCHANGED <<orders, payments>>
     ELSE /\ orders' = Append(orders,
                 NewOrder(userId, concertId, SumSubtotals(SnapshotItems(items)),
                          now + OrderTTL, SnapshotItems(items)))
          /\ payments' = Append(payments, <<>>)
          /\ last' = CreateOrderResponse(Len(orders) + 1, 201, concertId, items)
  /\ UNCHANGED <<ticketTypes, tickets, now, deliveries, requests>>

\* variant: a failed create leaves the order row without its items
FailedOrderCreateKeepsOrder(order) ==
  Append(orders, [order EXCEPT !.orderItems = <<>>])

\* prisma.order.create with the nested orderItems create is one transaction:
\* when it throws, neither the order nor any item has been written
FailedOrderCreate(order) == orders

\* POST /orders when prisma.order.create throws: the catch block answers 400
CreateOrderStorageFailure(userId, concertId, items) ==
  /\ concertId # Undef /\ items # <<>>
  /\ \A i \in DOMAIN items : items[i].ticketTypeId \in DOMAIN ticketTypes
  /\ orders' = FailedOrderCreate(
                 NewOrder(userId, concertId, SumSubtotals(SnapshotItems(items)),
                          now + OrderTTL, SnapshotItems(items)))
  /\ payments' = payments \o [i \in 1..(Len(orders') - Len(orders)) |-> <<>>]
  /\ last' = CreateOrderResponse(0, 400, concertId, items)
  /\ UNCHANGED <<ticketTypes, tickets, now, deliveries, requests>>

(* GraphQL: Mutation.createOrder *)
GqlCreateOrder(input) ==
  /\ orders' = Append(orders,
         NewOrder(input.userId, input.concertId, input.grossAmount,
                  input.expiresAt, input.items))
  /\ payments' = Append(payments, <<>>)
  /\ last' = Response("gqlCreateOrder", Len(orders) + 1, 200, <<>>)
  /\ UNCHANGED <<ticketTypes, tickets, now, deliveries, requests>>

(* REST: PUT /orders/:id/cancel *)
SetOrderStatus(o, status) == [orders EXCEPT ![o].status = status]

\* variant: the order is looked up by id alone
CancelOrderRESTAnyOwner(userId, id) ==
  /\ IF id \notin OrderIds
       THEN /\ last' = Response("cancelOrder", id, 404, <<>>)
            /\ UNCHANGED orders
     ELSE IF orders[id].status # "PENDING"
       THEN /\ last' = Response("cancelOrder", id, 400, <<>>)
            /\ UNCHANGED orders
     ELSE /\ orders' = SetOrderStatus(id, "CANCELLED")
          /\ last' = Response("cancelOrder", id, 200, <<>>)
  /\ UNCHANGED <<ticketTypes, payments, tickets, now, deliveries, requests>>

CancelOrderREST(userId, id) ==
  /\ IF ~(id \in OrderIds /\ orders[id].userId = userId)
       THEN /\ last' = Response("cancelOrder", id, 404, <<>>)
            /\ UNCHANGED orders
     ELSE IF orders[id].status # "PENDING"
       THEN /\ last' = Response("cancelOrder", id, 400, <<>>)
            /\ UNCHANGED orders
     ELSE /\ orders' = SetOrderStatus(id, "CANCELLED")
          /\ last' = Response("cancelOrder", id, 200, <<>>)
  /\ UNCHANGED <<ticketTypes, payments, tickets, now, deliveries, requests>>

(* GraphQL: Mutation.cancelOrder; update() of a missing row throws *)
GqlCancelOrder(id) ==
  /\ IF id \notin OrderIds
       THEN /\ last' = Response("gqlCancelOrder", id, 500, <<>>)
            /\ UNCHANGED orders
     ELSE /\ orders' = SetOrderStatus(id, "CANCELLED")
          /\ last' = Response("gqlCancelOrder", id, 200, <<>>)
  /\ UNCHANGED <<ticketTypes, payments, tickets, now, deliveries, requests>>

(* REST: POST /payments/:orderId/create *)

\* variant: the gateway is sent the ticket types' current prices
SnapParameterCurrentPrice(order) ==
  [order_id |-> order.midtransOrderId,
   gross_amount |-> SumSubtotals(SnapshotItems(order.orderItems)),
   item_prices |-> [i \in DOMAIN order.orderItems |->
                      ticketTypes[order.orderItems[i].ticketTypeId].price]]

\* transaction_details and item_details handed to snap.createTransaction
SnapParameter(order) ==
  [order_id |-> order.midtransOrderId,
   gross_amount |-> order.grossAmount,
   item_prices |-> [i \in DOMAIN order.orderItems |-> order.orderItems[i].unitPrice]]

NoPayment == <<>>

\* variant: the update branch of the upsert leaves snapToken as it was
UpsertPaymentKeepToken(p, token) ==
  IF p = NoPayment
    THEN <<[status |-> "PENDING", snapToken |-> token,
            transactionStatus |-> Undef, fraudStatus |-> Undef,
            rawPayloadJson |-> <<>>]>>
    ELSE <<[p[1] EXCEPT !.status = "PENDING"]>>

\* prisma.payment.upsert in payment initiation
UpsertPaymentOnCreate(p, token) ==
  IF p = NoPayment
    THEN <<[status |-> "PENDING", snapToken |-> token,
            transactionStatus |-> Undef, fraudStatus |-> Undef,
            rawPayloadJson |-> <<>>]>>
    ELSE <<[p[1] EXCEPT !.status = "PENDING", !.snapToken = token]>>

\* variant: the order is set AWAITING_PAYMENT before the gateway is called
CreatePaymentUpdateFirst(userId, orderId, gatewayUp, token) ==
  /\ IF ~(orderId \in OrderIds /\ orders[orderId].userId = userId)
       THEN /\ last' = Response("createPayment", orderId, 404, <<>>)
            /\ UNCHANGED <<orders, payments>>
     ELSE IF orders[orderId].status # "PENDING"
       THEN /\ last' = Response("createPayment", orderId, 400, <<>>)
            /\ UNCHANGED <<orders, payments>>
     ELSE IF now > orders[orderId].expiresAt
       THEN /\ orders' = SetOrderStatus(orderId, "EXPIRED")
            /\ last' = Response("createPayment", orderId, 400, <<>>)
            /\ UNCHANGED payments
     ELSE IF ~gatewayUp
       THEN /\ orders' = SetOrderStatus(orderId, "AWAITING_PAYMENT")
            /\ last' = Response("createPayment", orderId, 500,
                                <<SnapParameter(orders[orderId])>>)
            /\ UNCHANGED payments
     ELSE /\ orders' = SetOrderStatus(orderId, "AWAITING_PAYMENT")
          /\ payments' = [payments EXCEPT
                            ![orderId] = UpsertPaymentOnCreate(@, token)]
          /\ last' = ResponseWith("createPayment", orderId, 200,
                                  <<SnapParameter(orders[orderId])>>, <<token>>)
  /\ UNCHANGED <<ticketTypes, tickets, now, deliveries, requests>>

CreatePayment(userId, orderId, gatewayUp, token) ==
  /\ IF ~(orderId \in OrderIds /\ orders[orderId].userId = userId)
       THEN /\ last' = Response("createPayment", orderId, 404, <<>>)
            /\ UNCHANGED <<orders, payments>>
     ELSE IF orders[orderId].status # "PENDING"
       THEN /\ last' = Response("createPayment", orderId, 400, <<>>)
            /\ UNCHANGED <<orders, payments>>
     ELSE IF now > orders[orderId].expiresAt
       THEN /\ orders' = SetOrderStatus(orderId, "EXPIRED")
            /\ last' = Response("createPayment", orderId, 400, <<>>)
            /\ UNCHANGED payments
     ELSE IF ~gatewayUp
       THEN /\ last' = Response("createPayment", orderId, 500,
                                <<SnapParameter(orders[orderId])>>)
            /\ UNCHANGED <<orders, payments>>
     ELSE /\ orders' = SetOrderStatus(orderId, "AWAITING_PAYMENT")
          /\ payments' = [payments EXCEPT
                            ![orderId] = UpsertPaymentOnCreate(@, token)]
          /\ last' = ResponseWith("createPayment", orderId, 200,
                                  <<SnapParameter(orders[orderId])>>, <<token>>)
  /\ UNCHANGED <<ticketTypes, tickets, now, deliveries, requests>>

\* the writes of payment initiation, in the order it issues them
InitiationWrites == {"order.update", "payment.upsert"}

\* payment initiation when the write w throws after the gateway has created
\* the transaction: the write before w stays (there is no transaction) and
\* the catch block answers 500
CreatePaymentStorageFailure(userId, orderId, w) ==
  /\ orderId \in OrderIds /\ orders[orderId].userId = userId
  /\ orders[orderId].status = "PENDING"
  /\ ~(now > orders[orderId].expiresAt)
  /\ orders' = IF w = "order.update" THEN orders
               ELSE SetOrderStatus(orderId, "AWAITING_PAYMENT")
  /\ last' = Response("createPayment", orderId, 500,
                      <<SnapParameter(orders[orderId])>>)
  /\ UNCHANGED <<ticketTypes, payments, tickets, now, deliveries, requests>>

(* REST: POST /payments/webhook *)

\* variant: a capture or settlement settles whatever the fraud verdict is
PaymentStatusIgnoringFraud(n) ==
  IF n.transaction_status \in {"capture", "settlement"} THEN "SETTLED"
  ELSE IF n.transaction_status = "pending" THEN "PENDING"
  ELSE IF n.transaction_status \in {"deny", "cancel"} THEN "CANCELLED"
  ELSE IF n.transaction_status = "expire" THEN "EXPIRED"
  ELSE IF n.transaction_status = "refund" THEN "CANCELLED"
  ELSE "PENDING"

\* the if / else-if chain over transaction_status and fraud_status
PaymentStatusFor(n) ==
  IF n.transaction_status \in {"capture", "settlement"}
    THEN IF n.fraud_status = "accept" \/ n.fraud_status = Undef
           THEN "SETTLED" ELSE "FAILED"
  ELSE IF n.transaction_status = "pending" THEN "PENDING"
  ELSE IF n.transaction_status \in {"deny", "cancel"} THEN "CANCELLED"
  ELSE IF n.transaction_status = "expire" THEN "EXPIRED"
  ELSE IF n.transaction_status = "refund" THEN "CANCELLED"
  ELSE "PENDING"

OrderStatusFor(n, current) ==
  IF n.transaction_status \in {"capture", "settlement"}
    THEN IF n.fraud_status = "accept" \/ n.fraud_status = Undef
           THEN "PAID" ELSE "CANCELLED"
  ELSE IF n.transaction_status = "pending" THEN "AWAITING_PAYMENT"
  ELSE IF n.transaction_status \in {"deny", "cancel"} THEN "CANCELLED"
  ELSE IF n.transaction_status = "expire" THEN "EXPIRED"
  ELSE IF n.transaction_status = "refund" THEN "REFUNDED"
  ELSE current

\* prisma.payment.upsert in the webhook; an undefined field of update.data
\* leaves the column as it is
UpsertPaymentOnWebhook(p, n) ==
  IF p = NoPayment
    THEN <<[status |-> PaymentStatusFor(n), snapToken |-> Undef,
            transactionStatus |-> n.transaction_status,
            fraudStatus |-> n.fraud_status,
            rawPayloadJson |-> <<n>>]>>
    ELSE <<[p[1] EXCEPT !.status = PaymentStatusFor(n),
                        !.transactionStatus = n.transaction_status,
                        !.fraudStatus = IF n.fraud_status = Undef THEN @
                                        ELSE n.fraud_status,
                        !.rawPayloadJson = <<n>>]>>

\* one ticket per unit of quantity, in item order; the code is fresh
RECURSIVE TicketsToCreate(_, _)
TicketsToCreate(o, items) ==
  IF items = <<>> THEN <<>>
  ELSE [k \in 1..Head(items).qty |->
          [orderId |-> o,
           userId |-> orders[o].userId,
           concertId |-> orders[o].concertId,
           ticketTypeId |-> Head(items).ticketTypeId,
           status |-> DefaultTicketStatus,
           usedAt |-> <<>>]]
       \o TicketsToCreate(o, Tail(items))

\* for (const item of order.orderItems) quotaSold: { increment: item.qty }
RECURSIVE IncrementQuotaSold(_, _)
IncrementQuotaSold(tt, items) ==
  IF items = <<>> THEN tt
  ELSE IncrementQuotaSold(
         [tt EXCEPT ![Head(items).ticketTypeId].quotaSold = @ + Head(items).qty],
         Tail(items))

WebhookResponse(n, code) ==
  [Response("webhook", n.order_id, code, <<>>) EXCEPT !.req = <<n>>]

Webhook(n) ==
  /\ IF FindByMidtransOrderId(n.order_id) = {}
       THEN /\ last' = WebhookResponse(n, 404)
            /\ UNCHANGED <<orders, payments, tickets, ticketTypes>>
     ELSE LET o == CHOOSE x \in FindByMidtransOrderId(n.order_id) : TRUE
              paymentStatus == PaymentStatusFor(n)
              orderStatus == OrderStatusFor(n, orders[o].status)
              items == orders[o].orderItems
          IN /\ payments' = [payments EXCEPT ![o] = UpsertPaymentOnWebhook(@, n)]
             /\ orders' = SetOrderStatus(o, orderStatus)
             /\ IF paymentStatus = "SETTLED" /\ orderStatus = "PAID"
                   /\ SumQty(items) > 0
                  THEN /\ Len(tickets) + SumQty(items) <= MaxTickets
                       /\ tickets' = tickets \o TicketsToCreate(o, items)
                       /\ ticketTypes' = IncrementQuotaSold(ticketTypes, items)
                  ELSE UNCHANGED <<tickets, ticketTypes>>
             /\ last' = WebhookResponse(n, 200)
  /\ UNCHANGED <<now, deliveries, requests>>

\* the writes of the webhook, in the order it issues them; the quotaSold
\* update of the k-th order item is <<"ticketType.update", k>>
StorageWrites ==
  {<<"payment.upsert", 0>>, <<"order.update", 0>>, <<"ticket.createMany", 0>>}
    \cup {<<"ticketType.update", k>> : k \in 1..MaxItems}

\* the webhook when the write w throws: the writes before w stay (there is
\* no transaction) and the catch block answers 500
WebhookStorageFailure(n, w) ==
  /\ FindByMidtransOrderId(n.order_id) # {}
  /\ LET o == CHOOSE x \in FindByMidtransOrderId(n.order_id) : TRUE
         paymentStatus == PaymentStatusFor(n)
         orderStatus == OrderStatusFor(n, orders[o].status)
         items == orders[o].orderItems
         issues == paymentStatus = "SETTLED" /\ orderStatus = "PAID"
                     /\ SumQty(items) > 0
     IN /\ w[1] \in {"ticket.createMany", "ticketType.update"} => issues
        /\ w[1] = "ticketType.update" => w[2] \in DOMAIN items
        /\ payments' = IF w[1] = "payment.upsert" THEN payments
                       ELSE [payments EXCEPT ![o] = UpsertPaymentOnWebhook(@, n)]
        /\ orders' = IF w[1] \in {"payment.upsert", "order.update"} THEN orders
                     ELSE SetOrderStatus(o, orderStatus)
        /\ IF w[1] = "ticketType.update"
             THEN /\ Len(tickets) + SumQty(items) <= MaxTickets
                  /\ tickets' = tickets \o TicketsToCreate(o, items)
                  /\ ticketTypes' = IncrementQuotaSold(ticketTypes,
                                                       SubSeq(items, 1, w[2] - 1))
             ELSE UNCHANGED <<tickets, ticketTypes>>
  /\ last' = WebhookResponse(n, 500)
  /\ UNCHANGED <<now, deliveries, requests>>

(* POST /payments/webhook, one await at a time: requests in flight together *)
(* interleave at their queries                                              *)

InFlight(d) == deliveries[d].pc \notin {"idle", "done"}

\* whether the request goes on to create tickets after its order update
Issues(d) ==
  /\ PaymentStatusFor(deliveries[d].n[1]) = "SETTLED"
  /\ OrderStatusFor(deliveries[d].n[1], deliveries[d].status) = "PAID"
  /\ SumQty(orders[deliveries[d].o].orderItems) > 0

\* findFirst by midtransOrderId; 404 when there is no such order
DeliveryFind(d, n) ==
  /\ deliveries[d].pc = "idle"
  /\ IF FindByMidtransOrderId(n.order_id) = {}
       THEN /\ deliveries' = [deliveries EXCEPT ![d].pc = "done", ![d].n = <<n>>]
            /\ last' = WebhookResponse(n, 404)
       ELSE LET o == CHOOSE x \in FindByMidtransOrderId(n.order_id) : TRUE
                together == \E e \in Deliveries \ {d} : InFlight(e)
            IN /\ deliveries' =
                    [e \in Deliveries |->
                       IF e = d
                         THEN [pc |-> "upsert", n |-> <<n>>, o |-> o,
                               status |-> orders[o].status, k |-> 0,
                               overlapped |-> together]
                       ELSE IF InFlight(e)
                         THEN [deliveries[e] EXCEPT !.overlapped = TRUE]
                       ELSE deliveries[e]]
               /\ UNCHANGED last
  /\ UNCHANGED <<ticketTypes, orders, payments, tickets, now, requests>>

\* payment.upsert
DeliveryUpsert(d) ==
  /\ deliveries[d].pc = "upsert"
  /\ payments' = [payments EXCEPT ![deliveries[d].o] =
                    UpsertPaymentOnWebhook(@, deliveries[d].n[1])]
  /\ deliveries' = [deliveries EXCEPT ![d].pc = "update"]
  /\ UNCHANGED <<ticketTypes, orders, tickets, now, last, requests>>

\* order.update, then either the ticket branch or the 200 response
DeliveryUpdateOrder(d) ==
  /\ deliveries[d].pc = "update"
  /\ orders' = SetOrderStatus(deliveries[d].o,
                              OrderStatusFor(deliveries[d].n[1], deliveries[d].status))
  /\ IF Issues(d)
       THEN /\ deliveries' = [deliveries EXCEPT ![d].pc = "issue"]
            /\ UNCHANGED last
       ELSE /\ deliveries' = [deliveries EXCEPT ![d].pc = "done"]
            /\ last' = WebhookResponse(deliveries[d].n[1], 200)
  /\ UNCHANGED <<ticketTypes, payments, tickets, now, requests>>

\* ticket.createMany
DeliveryCreateTickets(d) ==
  /\ deliveries[d].pc = "issue"
  /\ LET items == orders[deliveries[d].o].orderItems
     IN /\ Len(tickets) + SumQty(items) <= MaxTickets
        /\ tickets' = tickets \o TicketsToCreate(deliveries[d].o, items)
  /\ deliveries' = [deliveries EXCEPT ![d].pc = "quota", ![d].k = 1]
  /\ UNCHANGED <<ticketTypes, orders, payments, now, last, requests>>

\* ticketType.update of the k-th item; after the last one the 200 response
DeliveryIncrementQuota(d) ==
  /\ deliveries[d].pc = "quota"
  /\ LET items == orders[deliveries[d].o].orderItems
         k == deliveries[d].k
     IN /\ ticketTypes' = IncrementQuotaSold(ticketTypes, <<items[k]>>)
        /\ IF k = Len(items)
             THEN /\ deliveries' = [deliveries EXCEPT ![d].pc = "done"]
                  /\ last' = WebhookResponse(deliveries[d].n[1], 200)
             ELSE /\ deliveries' = [deliveries EXCEPT ![d].k = k + 1]
                  /\ UNCHANGED last
  /\ UNCHANGED <<orders, payments, tickets, now, requests>>

\* the write the request is waiting for throws: the catch block answers 500
\* and what was written before stays written
DeliveryStorageFailure(d) ==
  /\ deliveries[d].pc \in {"upsert", "update", "issue", "quota"}
  /\ deliveries' = [deliveries EXCEPT ![d].pc = "done"]
  /\ last' = WebhookResponse(deliveries[d].n[1], 500)
  /\ UNCHANGED <<ticketTypes, orders, payments, tickets, now, requests>>

\* the response has been sent: the provider may send its next notification
DeliveryEnd(d) ==
  /\ deliveries[d].pc = "done"
  /\ deliveries' = [deliveries EXCEPT ![d] = Idle]
  /\ UNCHANGED <<ticketTypes, orders, payments, tickets, now, last, requests>>

\* the next step of a request in flight
DeliveryStep(d) ==
  \/ DeliveryUpsert(d)
  \/ DeliveryUpdateOrder(d)
  \/ DeliveryCreateTickets(d)
  \/ DeliveryIncrementQuota(d)
  \/ DeliveryStorageFailure(d)

(* GraphQL: Mutation.updateOrderStatus *)
GqlUpdateOrderStatus(id, status) ==
  /\ IF id \notin OrderIds
       THEN /\ last' = Response("gqlUpdateOrderStatus", id, 500, <<>>)
            /\ UNCHANGED <<orders, tickets>>
     ELSE /\ orders' = SetOrderStatus(id, status)
          /\ IF status = "PAID"
               THEN /\ Len(tickets) + SumQty(orders[id].orderItems) <= MaxTickets
                    /\ tickets' = tickets \o
                         TicketsToCreate(id, orders[id].orderItems)
               ELSE UNCHANGED tickets
          /\ last' = Response("gqlUpdateOrderStatus", id, 200, <<>>)
  /\ UNCHANGED <<ticketTypes, payments, now, deliveries, requests>>

(* GraphQL: Mutation.updateTicketType *)
GqlUpdateTicketType(id, input) ==
  /\ id \in DOMAIN ticketTypes
  /\ ticketTypes' = [ticketTypes EXCEPT
       ![id].price = IF input.price = <<>> THEN @ ELSE input.price[1],
       ![id].quotaTotal = IF input.quotaTotal = <<>> THEN @ ELSE input.quotaTotal[1]]
  /\ last' = Response("gqlUpdateTicketType", 0, 200, <<>>)
  /\ UNCHANGED <<orders, payments, tickets, now, deliveries, requests>>

(* REST: PUT /tickets/:code/use *)
UseTicket(code) ==
  /\ IF code \notin DOMAIN tickets
       THEN /\ last' = Response("useTicket", code, 404, <<>>)
            /\ UNCHANGED tickets
     ELSE IF tickets[code].status # "ISSUED"
       THEN /\ last' = Response("useTicket", code, 400, <<>>)
            /\ UNCHANGED tickets
     ELSE /\ tickets' = [tickets EXCEPT ![code].status = "USED",
                                        ![code].usedAt = <<now>>]
          /\ last' = Response("useTicket", code, 200, <<>>)
  /\ UNCHANGED <<ticketTypes, orders, payments, now, deliveries, requests>>

(* PUT /tickets/:code/use, one await at a time: requests in flight together *)
(* interleave between the findUnique and the update                         *)

RequestDone(r, op, id, code) ==
  [requests EXCEPT ![r] = [pc |-> "done", op |-> op, id |-> id, code |-> code]]

\* findUnique and the two tests on what it returned
UseTicketFind(r, code) ==
  /\ requests[r].pc = "idle"
  /\ IF code \notin DOMAIN tickets
       THEN /\ requests' = RequestDone(r, "useTicket", code, 404)
            /\ last' = Response("useTicket", code, 404, <<>>)
     ELSE IF tickets[code].status # "ISSUED"
       THEN /\ requests' = RequestDone(r, "useTicket", code, 400)
            /\ last' = Response("useTicket", code, 400, <<>>)
     ELSE /\ requests' = [requests EXCEPT ![r] =
                 [pc |-> "update", op |-> "useTicket", id |-> code, code |-> 0]]
          /\ UNCHANGED last
  /\ UNCHANGED <<ticketTypes, orders, payments, tickets, now, deliveries>>

\* ticket.update, then the 200 response
UseTicketUpdate(r) ==
  /\ requests[r].pc = "update" /\ requests[r].op = "useTicket"
  /\ tickets' = [tickets EXCEPT ![requests[r].id].status = "USED",
                                ![requests[r].id].usedAt = <<now>>]
  /\ requests' = RequestDone(r, "useTicket", requests[r].id, 200)
  /\ last' = Response("useTicket", requests[r].id, 200, <<>>)
  /\ UNCHANGED <<ticketTypes, orders, payments, now, deliveries>>

(* PUT /orders/:id/cancel and POST /payments/:orderId/create, one await at *)
(* a time                                                                  *)

RequestAt(r, op, id, pc) ==
  [requests EXCEPT ![r] = [pc |-> pc, op |-> op, id |-> id, code |-> 0]]

\* cancel: findFirst by id and userId, and the two tests on what it returned
CancelFind(r, userId, id) ==
  /\ requests[r].pc = "idle"
  /\ IF ~(id \in OrderIds /\ orders[id].userId = userId)
       THEN /\ requests' = RequestDone(r, "cancelOrder", id, 404)
            /\ last' = Response("cancelOrder", id, 404, <<>>)
     ELSE IF orders[id].status # "PENDING"
       THEN /\ requests' = RequestDone(r, "cancelOrder", id, 400)
            /\ last' = Response("cancelOrder", id, 400, <<>>)
     ELSE /\ requests' = RequestAt(r, "cancelOrder", id, "update")
          /\ UNCHANGED last
  /\ UNCHANGED <<ticketTypes, orders, payments, tickets, now, deliveries>>

\* cancel: order.update, then the 200 response
CancelUpdate(r) ==
  /\ requests[r].pc = "update" /\ requests[r].op = "cancelOrder"
  /\ orders' = SetOrderStatus(requests[r].id, "CANCELLED")
  /\ requests' = RequestDone(r, "cancelOrder", requests[r].id, 200)
  /\ last' = Response("cancelOrder", requests[r].id, 200, <<>>)
  /\ UNCHANGED <<ticketTypes, payments, tickets, now, deliveries>>

\* initiation: findFirst by id and userId, the status test and the expiry test
PaymentFind(r, userId, orderId) ==
  /\ requests[r].pc = "idle"
  /\ IF ~(orderId \in OrderIds /\ orders[orderId].userId = userId)
       THEN /\ requests' = RequestDone(r, "createPayment", orderId, 404)
            /\ last' = Response("createPayment", orderId, 404, <<>>)
            /\ UNCHANGED orders
     ELSE IF orders[orderId].status # "PENDING"
       THEN /\ requests' = RequestDone(r, "createPayment", orderId, 400)
            /\ last' = Response("createPayment", orderId, 400, <<>>)
            /\ UNCHANGED orders
     ELSE IF now > orders[orderId].expiresAt
       THEN /\ orders' = SetOrderStatus(orderId, "EXPIRED")
            /\ requests' = RequestDone(r, "createPayment", orderId, 400)
            /\ last' = Response("createPayment", orderId, 400, <<>>)
     ELSE /\ requests' = RequestAt(r, "createPayment", orderId, "gateway")
          /\ UNCHANGED <<orders, last>>
  /\ UNCHANGED <<ticketTypes, payments, tickets, now, deliveries>>

\* initiation: snap.createTransaction has created the gateway transaction
PaymentGateway(r) ==
  /\ requests[r].pc = "gateway"
  /\ requests' = [requests EXCEPT ![r].pc = "update"]
  /\ UNCHANGED <<ticketTypes, orders, payments, tickets, now, last, deliveries>>

\* initiation: order.update
PaymentUpdateOrder(r) ==
  /\ requests[r].pc = "update" /\ requests[r].op = "createPayment"
  /\ orders' = SetOrderStatus(requests[r].id, "AWAITING_PAYMENT")
  /\ requests' = [requests EXCEPT ![r].pc = "upsert"]
  /\ UNCHANGED <<ticketTypes, payments, tickets, now, last, deliveries>>

\* initiation: payment.upsert, then the 200 response with the token
PaymentUpsert(r, token) ==
  /\ requests[r].pc = "upsert"
  /\ payments' = [payments EXCEPT
                    ![requests[r].id] = UpsertPaymentOnCreate(@, token)]
  /\ requests' = RequestDone(r, "createPayment", requests[r].id, 200)
  /\ last' = ResponseWith("createPayment", requests[r].id, 200,
                          <<SnapParameter(orders[requests[r].id])>>, <<token>>)
  /\ UNCHANGED <<ticketTypes, orders, tickets, now, deliveries>>

(* GraphQL: Mutation.useTicket *)
GqlUseTicket(code) ==
  /\ IF code \notin DOMAIN tickets
       THEN /\ last' = Response("gqlUseTicket", code, 500, <<>>)
            /\ UNCHANGED tickets
     ELSE /\ tickets' = [tickets EXCEPT ![code].status = "USED",
                                        ![code].usedAt = <<now>>]
          /\ last' = Response("gqlUseTicket", code, 200, <<>>)
  /\ UNCHANGED <<ticketTypes, orders, payments, now, deliveries, requests>>

\* variant: voiding also clears usedAt
GqlVoidTicketClearsUsedAt(id) ==
  /\ IF id \notin DOMAIN tickets
       THEN /\ last' = Response("gqlVoidTicket", id, 500, <<>>)
            /\ UNCHANGED tickets
     ELSE /\ tickets' = [tickets EXCEPT ![id].status = "VOID",
                                        ![id].usedAt = <<>>]
          /\ last' = Response("gqlVoidTicket", id, 200, <<>>)
  /\ UNCHANGED <<ticketTypes, orders, payments, now, deliveries, requests>>

(* GraphQL: Mutation.voidTicket *)
GqlVoidTicket(id) ==
  /\ IF id \notin DOMAIN tickets
       THEN /\ last' = Response("gqlVoidTicket", id, 500, <<>>)
            /\ UNCHANGED tickets
     ELSE /\ tickets' = [tickets EXCEPT ![id].status = "VOID"]
          /\ last' = Response("gqlVoidTicket", id, 200, <<>>)
  /\ UNCHANGED <<ticketTypes, orders, payments, now, deliveries, requests>>

----------------------------------------------------------------------------
(* Reads: none of them writes to the store *)

\* what a response shows of an order row
OrderView(o) == [id |-> o, status |-> orders[o].status]

\* data of GET /payments/:orderId
PaymentView(o) ==
  [id |-> o,
   status |-> orders[o].status,
   paymentStatus |-> payments[o][1].status,
   snapToken |-> payments[o][1].snapToken,
   transactionStatus |-> payments[o][1].transactionStatus]

\* findMany({ where: { userId } })
OrdersOfUser(userId) == {o \in OrderIds : orders[o].userId = userId}

\* orderBy: { createdAt: "desc" }
RECURSIVE NewestFirst(_)
NewestFirst(S) ==
  IF S = {} THEN <<>>
  ELSE LET m == CHOOSE x \in S : \A y \in S : y <= x
       IN <<OrderView(m)>> \o NewestFirst(S \ {m})

\* findMany without orderBy: the rows come in an order the store chooses
Orderings(S) ==
  {s \in [1..Cardinality(S) -> S] : \A i, j \in DOMAIN s : i # j => s[i] # s[j]}

(* REST: GET /orders *)
GetOrders(userId) ==
  /\ last' = ResponseWith("getOrders", 0, 200, <<>>,
                          NewestFirst(OrdersOfUser(userId)))
  /\ UNCHANGED <<ticketTypes, orders, payments, tickets, now, deliveries, requests>>

(* REST: GET /orders/:id *)
GetOrder(userId, id) ==
  /\ IF ~(id \in OrderIds /\ orders[id].userId = userId)
       THEN last' = Response("getOrder", id, 404, <<>>)
       ELSE last' = ResponseWith("getOrder", id, 200, <<>>, <<OrderView(id)>>)
  /\ UNCHANGED <<ticketTypes, orders, payments, tickets, now, deliveries, requests>>

(* REST: GET /payments/:orderId *)
GetPayment(userId, orderId) ==
  /\ IF ~(/\ orderId \in OrderIds
          /\ payments[orderId] # NoPayment
          /\ orders[orderId].userId = userId)
       THEN last' = Response("getPayment", orderId, 404, <<>>)
       ELSE last' = ResponseWith("getPayment", orderId, 200, <<>>,
                                 <<PaymentView(orderId)>>)
  /\ UNCHANGED <<ticketTypes, orders, payments, tickets, now, deliveries, requests>>

(* GraphQL: Query.order; findUnique of a missing row is null *)
GqlOrder(id) ==
  /\ IF id \notin OrderIds
       THEN last' = Response("gqlOrder", id, 200, <<>>)
       ELSE last' = ResponseWith("gqlOrder", id, 200, <<>>, <<OrderView(id)>>)
  /\ UNCHANGED <<ticketTypes, orders, payments, tickets, now, deliveries, requests>>

(* GraphQL: Query.userOrders *)
GqlUserOrders(userId) ==
  /\ IF OrdersOfUser(userId) = {}
       THEN last' = Response("gqlUserOrders", 0, 200, <<>>)
       ELSE \E s \in Orderings(OrdersOfUser(userId)) :
              last' = ResponseWith("gqlUserOrders", 0, 200, <<>>,
                                   [i \in DOMAIN s |-> OrderView(s[i])])
  /\ UNCHANGED <<ticketTypes, orders, payments, tickets, now, deliveries, requests>>

----------------------------------------------------------------------------
(* Order lifecycle, payment and settlement: every entry point that writes an *)
(* order, a payment or issues tickets.                                       *)

CreateOrderRESTStep ==
  /\ Len(orders) < MaxOrders
  /\ \E u \in Users, c \in {"c1", Undef}, items \in ItemInputs :
       CreateOrderREST(u, c, items)

GqlCreateOrderStep ==
  /\ Len(orders) < MaxOrders
  /\ \E input \in GqlOrderInputs : GqlCreateOrder(input)

Next ==
  \/ Tick
  \/ CreateOrderRESTStep
  \/ GqlCreateOrderStep
  \/ \E u \in Users, id \in RequestOrderIds : CancelOrderREST(u, id)
  \/ \E id \in RequestOrderIds : GqlCancelOrder(id)
  \/ \E u \in Users, id \in RequestOrderIds, up \in BOOLEAN, token \in Tokens :
       CreatePayment(u, id, up, token)
  \/ \E n \in Notifications : Webhook(n)
  \/ \E id \in RequestOrderIds, st \in OrderStatuses : GqlUpdateOrderStatus(id, st)

Spec == Init /\ [][Next]_vars
----------------------------------------------------------------------------
(* Ticket redemption: tickets are issued by a settlement (or by             *)
(* updateOrderStatus) and then used or voided by code.                      *)

TicketNotifications ==
  {n \in Notifications :
     /\ n.order_id \in RequestOrderIds
     /\ n.transaction_status \in {"settlement", "refund"}
     /\ n.fraud_status = Undef}

CreateTicketOrderStep ==
  /\ Len(orders) < MaxOrders
  /\ \E u \in Users, q \in 1..MaxQty :
       CreateOrderREST(u, "c1", <<[ticketTypeId |-> "A", qty |-> q]>>)

NextTickets ==
  \/ Tick
  \/ CreateTicketOrderStep
  \/ \E n \in TicketNotifications : Webhook(n)
  \/ \E id \in RequestOrderIds : GqlUpdateOrderStatus(id, "PAID")
  \/ \E code \in RequestTicketCodes : UseTicket(code)
  \/ \E code \in RequestTicketCodes : GqlUseTicket(code)
  \/ \E id \in RequestTicketCodes : GqlVoidTicket(id)

SpecTickets == Init /\ [][NextTickets]_vars

----------------------------------------------------------------------------
(* Price snapshots: ticket-type prices change while orders are created,     *)
(* paid for and settled.                                                    *)

PricingNotifications ==
  {n \in Notifications :
     /\ n.order_id \in RequestOrderIds
     /\ n.transaction_status = "settlement"
     /\ n.fraud_status = Undef}

TicketTypeInputs == [price : Optional(Prices), quotaTotal : {<<>>}]

CreatePricedOrderStep ==
  /\ Len(orders) < MaxOrders
  /\ \E t \in TicketTypeIds, q \in 1..MaxQty :
       CreateOrderREST("u1", "c1", <<[ticketTypeId |-> t, qty |-> q]>>)

GqlCreatePricedOrderStep ==
  /\ Len(orders) < MaxOrders
  /\ \E input \in {i \in GqlOrderInputs : i.userId = "u1"} : GqlCreateOrder(input)

NextPricing ==
  \/ CreatePricedOrderStep
  \/ GqlCreatePricedOrderStep
  \/ \E id \in TicketTypeIds, input \in TicketTypeInputs :
       GqlUpdateTicketType(id, input)
  \/ \E id \in RequestOrderIds : CancelOrderREST("u1", id)
  \/ \E id \in RequestOrderIds : GqlCancelOrder(id)
  \/ \E id \in RequestOrderIds, up \in BOOLEAN, token \in Tokens :
       CreatePayment("u1", id, up, token)
  \/ \E n \in PricingNotifications : Webhook(n)

SpecPricing == Init /\ [][NextPricing]_vars

----------------------------------------------------------------------------
(* Checkout: an order is created, read, cancelled or paid for while the     *)
(* clock runs towards and past its expiresAt.                               *)

\* tokens of two gateway transactions
GatewayTokens == {"snap-1", "snap-2"}

\* Mutation.createOrder stores the expiresAt the caller sends
CheckoutOrderInputs ==
  [userId : {"u1"}, concertId : {"c1"}, grossAmount : {PriceRegular},
   expiresAt : {now + OrderTTL, now + 2 * OrderTTL},
   items : {<<[ticketTypeId |-> "A", qty |-> 1, unitPrice |-> PriceRegular,
               subtotal |-> PriceRegular]>>}]

\* the provider reports the transaction the customer has opened
CheckoutNotifications ==
  {n \in Notifications :
     /\ n.order_id \in RequestOrderIds
     /\ n.transaction_status = "pending"
     /\ n.fraud_status = Undef}

CreateCheckoutOrderStep ==
  /\ Len(orders) < MaxOrders
  /\ CreateOrderREST("u1", "c1", <<[ticketTypeId |-> "A", qty |-> 1]>>)

GqlCreateCheckoutOrderStep ==
  /\ Len(orders) < MaxOrders
  /\ \E input \in CheckoutOrderInputs : GqlCreateOrder(input)

NextCheckout ==
  \/ Tick
  \/ CreateCheckoutOrderStep
  \/ GqlCreateCheckoutOrderStep
  \/ \E id \in RequestOrderIds : CancelOrderREST("u1", id)
  \/ \E id \in RequestOrderIds, up \in BOOLEAN, token \in GatewayTokens :
       CreatePayment("u1", id, up, token)
  \/ \E n \in CheckoutNotifications : Webhook(n)
  \/ \E id \in RequestOrderIds : GqlUpdateOrderStatus(id, "PENDING")
  \/ GetOrders("u1")
  \/ \E id \in RequestOrderIds : GetOrder("u1", id)
  \/ \E id \in RequestOrderIds : GetPayment("u1", id)
  \/ \E id \in RequestOrderIds : GqlOrder(id)
  \/ GqlUserOrders("u1")

SpecCheckout == Init /\ [][NextCheckout]_vars

----------------------------------------------------------------------------
(* Webhook deliveries: notifications from the provider and from anyone else *)
(* who can reach the endpoint, with storage failures.                       *)

\* every transaction_status the webhook distinguishes
ProviderTransactionStatuses == TransactionStatuses \cup {"capture", "deny"}

\* signature_key of the request body: the provider's, or anything else
ProviderSignature == "provider-signature"
SignatureKeys == {ProviderSignature, "forged"}

SignedNotifications ==
  [order_id : RequestOrderIds \cup {UnknownMidtransOrderId},
   transaction_status : ProviderTransactionStatuses,
   fraud_status : {Undef},
   signature_key : SignatureKeys]

CreateWebhookOrderStep ==
  /\ Len(orders) < MaxOrders
  /\ CreateOrderREST("u1", "c1", <<[ticketTypeId |-> "A", qty |-> 1]>>)

NextWebhook ==
  \/ CreateWebhookOrderStep
  \/ \E id \in RequestOrderIds, token \in Tokens :
       CreatePayment("u1", id, TRUE, token)
  \/ \E n \in SignedNotifications : Webhook(n)
  \/ \E n \in SignedNotifications, w \in StorageWrites :
       WebhookStorageFailure(n, w)
  \/ \E id \in RequestOrderIds, w \in InitiationWrites :
       CreatePaymentStorageFailure("u1", id, w)

SpecWebhook == Init /\ [][NextWebhook]_vars

----------------------------------------------------------------------------
(* Status mapping: every transaction_status and fraud verdict delivered to  *)
(* orders in every status.                                                  *)

MappingNotifications ==
  {n \in [order_id : RequestOrderIds,
          transaction_status : ProviderTransactionStatuses,
          fraud_status : FraudStatuses] :
     n.fraud_status # Undef => n.transaction_status \in {"capture", "settlement"}}

NextMapping ==
  \/ CreateWebhookOrderStep
  \/ \E id \in RequestOrderIds, token \in Tokens :
       CreatePayment("u1", id, TRUE, token)
  \/ \E n \in MappingNotifications : Webhook(n)

SpecMapping == Init /\ [][NextMapping]_vars

----------------------------------------------------------------------------
(* Order creation: valid and invalid requests, with storage failures.       *)

\* items of the requests: none, one line, two lines, and lines that name a
\* ticket type without a row
OrderRequestItems ==
  LET a == [ticketTypeId |-> "A", qty |-> 1]
      b == [ticketTypeId |-> "B", qty |-> 1]
      z == [ticketTypeId |-> UnknownTicketType, qty |-> 1]
  IN {<<>>, <<a>>, <<a, b>>, <<z>>, <<a, z>>}

CreateListedOrderStep ==
  /\ Len(orders) < MaxOrders
  /\ \E c \in {"c1", Undef}, items \in OrderRequestItems :
       CreateOrderREST("u1", c, items)

CreateOrderStorageFailureStep ==
  /\ Len(orders) < MaxOrders
  /\ \E items \in OrderRequestItems : CreateOrderStorageFailure("u1", "c1", items)

NextOrders ==
  \/ Tick
  \/ CreateListedOrderStep
  \/ CreateOrderStorageFailureStep
  \/ \E id \in RequestOrderIds : CancelOrderREST("u1", id)
  \/ \E id \in RequestOrderIds : GetOrder("u1", id)
  \/ GetOrders("u1")

SpecOrders == Init /\ [][NextOrders]_vars

----------------------------------------------------------------------------
(* Concurrent deliveries: two settlement notifications of one order being   *)
(* processed at the same time.                                              *)

SettlementNotifications ==
  {n \in Notifications :
     /\ n.order_id \in RequestOrderIds
     /\ n.transaction_status = "settlement"
     /\ n.fraud_status = Undef}

NextDeliveries ==
  \/ CreateTicketOrderStep
  \/ \E id \in RequestOrderIds, token \in Tokens :
       CreatePayment("u1", id, TRUE, token)
  \/ \E d \in Deliveries, n \in SettlementNotifications : DeliveryFind(d, n)
  \/ \E d \in Deliveries : DeliveryUpsert(d)
  \/ \E d \in Deliveries : DeliveryUpdateOrder(d)
  \/ \E d \in Deliveries : DeliveryCreateTickets(d)
  \/ \E d \in Deliveries : DeliveryIncrementQuota(d)

SpecDeliveries == Init /\ [][NextDeliveries]_vars

----------------------------------------------------------------------------
(* Ticket rows: issued by settlements and by updateOrderStatus, then used   *)
(* and voided.                                                              *)

CreateTicketRowsOrderStep ==
  /\ Len(orders) < MaxOrders
  /\ \E q \in 1..MaxQty :
       CreateOrderREST("u1", "c1", <<[ticketTypeId |-> "A", qty |-> q]>>)

NextTicketRows ==
  \/ CreateTicketRowsOrderStep
  \/ \E n \in SettlementNotifications : Webhook(n)
  \/ \E id \in RequestOrderIds : GqlUpdateOrderStatus(id, "PAID")
  \/ \E code \in RequestTicketCodes : UseTicket(code)
  \/ \E code \in RequestTicketCodes : GqlUseTicket(code)
  \/ \E id \in RequestTicketCodes : GqlVoidTicket(id)

SpecTicketRows == Init /\ [][NextTicketRows]_vars

----------------------------------------------------------------------------
(* Settlements whose writes can fail. The server starts no timer and runs   *)
(* nothing at startup besides listen(): its only steps are those of the     *)
(* requests it has accepted, and the event loop carries each of them to its *)
(* response. A write that is attempted again and again succeeds in the end. *)

NextSettlements ==
  \/ CreateTicketRowsOrderStep
  \/ \E d \in Deliveries, n \in SettlementNotifications : DeliveryFind(d, n)
  \/ \E d \in Deliveries : DeliveryUpsert(d)
  \/ \E d \in Deliveries : DeliveryUpdateOrder(d)
  \/ \E d \in Deliveries : DeliveryCreateTickets(d)
  \/ \E d \in Deliveries : DeliveryIncrementQuota(d)
  \/ \E d \in Deliveries : DeliveryStorageFailure(d)
  \/ \E d \in Deliveries : DeliveryEnd(d)

SpecSettlements ==
  /\ Init
  /\ [][NextSettlements]_vars
  /\ \A d \in Deliveries :
       /\ WF_vars(DeliveryStep(d))
       /\ SF_vars(DeliveryUpsert(d))
       /\ SF_vars(DeliveryUpdateOrder(d))
       /\ SF_vars(DeliveryCreateTickets(d))
       /\ SF_vars(DeliveryIncrementQuota(d))

----------------------------------------------------------------------------
(* Notifications whose transaction_status the webhook has no branch for,    *)
(* next to settlements, pending notifications and refunds.                  *)

RecognisedTransactionStatuses ==
  {"capture", "settlement", "pending", "deny", "cancel", "expire", "refund"}

UnrecognisedTransactionStatus == "authorize"

UnrecognisedNotifications ==
  [order_id : RequestOrderIds,
   transaction_status : {"settlement", "pending", "refund",
                         UnrecognisedTransactionStatus},
   fraud_status : {Undef}]

NextUnrecognised ==
  \/ CreateWebhookOrderStep
  \/ \E id \in RequestOrderIds, token \in Tokens :
       CreatePayment("u1", id, TRUE, token)
  \/ \E n \in UnrecognisedNotifications : Webhook(n)
  \/ \E id \in RequestOrderIds : CancelOrderREST("u1", id)

SpecUnrecognised == Init /\ [][NextUnrecognised]_vars

----------------------------------------------------------------------------
(* Concurrent redemption: two use requests for tickets of a settled order.  *)

NextConcurrentUse ==
  \/ Tick
  \/ CreateTicketRowsOrderStep
  \/ \E n \in SettlementNotifications : Webhook(n)
  \/ \E r \in Requests, code \in RequestTicketCodes : UseTicketFind(r, code)
  \/ \E r \in Requests : UseTicketUpdate(r)

SpecConcurrentUse == Init /\ [][NextConcurrentUse]_vars

----------------------------------------------------------------------------
(* A cancel and a payment initiation by the owner, in flight together.      *)

NextCancelAndPay ==
  \/ Tick
  \/ CreateTicketRowsOrderStep
  \/ \E r \in Requests, id \in RequestOrderIds : CancelFind(r, "u1", id)
  \/ \E r \in Requests : CancelUpdate(r)
  \/ \E r \in Requests, id \in RequestOrderIds : PaymentFind(r, "u1", id)
  \/ \E r \in Requests : PaymentGateway(r)
  \/ \E r \in Requests : PaymentUpdateOrder(r)
  \/ \E r \in Requests, token \in Tokens : PaymentUpsert(r, token)

SpecCancelAndPay == Init /\ [][NextCancelAndPay]_vars

----------------------------------------------------------------------------
(* Orders of two users, and each user's REST requests naming any order.     *)

CreateOwnedOrderStep ==
  /\ Len(orders) < MaxOrders
  /\ \E u \in Users :
       CreateOrderREST(u, "c1", <<[ticketTypeId |-> "A", qty |-> 1]>>)

NextOwnership ==
  \/ Tick
  \/ CreateOwnedOrderStep
  \/ \E u \in Users, id \in RequestOrderIds : GetOrder(u, id)
  \/ \E u \in Users, id \in RequestOrderIds : CancelOrderREST(u, id)
  \/ \E u \in Users, id \in RequestOrderIds, token \in Tokens :
       CreatePayment(u, id, TRUE, token)
  \/ \E u \in Users, id \in RequestOrderIds : GetPayment(u, id)

SpecOwnership == Init /\ [][NextOwnership]_vars

----------------------------------------------------------------------------
(* Claims *)

MidtransRef(o) == orders[o].midtransOrderId

\* the notification last stored on the payment of order o (<<>> when none)
LastNotification(o) ==
  IF payments[o] = NoPayment THEN <<>> ELSE payments[o][1].rawPayloadJson

\* this step is a webhook delivery that resolved to order o
WebhookStepOn(o) ==
  /\ last'.op = "webhook"
  /\ last'.id = MidtransRef(o)
  /\ LastNotification(o)' # <<>>

TicketCount(o) == Cardinality(TicketsOfOrder(o))

\* C1: a settlement notification delivered to the webhook a second time, right
\* after its first delivery, returns success, issues no further ticket and
\* leaves Order.status, Payment.status and every quotaSold as they were.
C1_SecondSettlementIsNoOp ==
  [][\A o \in OrderIds :
       (/\ last.op = "webhook" /\ last.code = 200 /\ last.id = MidtransRef(o)
        /\ LastNotification(o) # <<>>
        /\ PaymentStatusFor(LastNotification(o)[1]) = "SETTLED"
        /\ WebhookStepOn(o)
        /\ LastNotification(o)' = LastNotification(o))
       => /\ last'.code = 200
          /\ TicketCount(o)' = TicketCount(o)
          /\ orders'[o].status = orders[o].status
          /\ payments'[o][1].status = payments[o][1].status
          /\ \A t \in TicketTypeIds :
               ticketTypes'[t].quotaSold = ticketTypes[t].quotaSold]_vars

AllowedTransitions ==
  {<<"PENDING", "AWAITING_PAYMENT">>, <<"PENDING", "CANCELLED">>,
   <<"PENDING", "EXPIRED">>, <<"AWAITING_PAYMENT", "PAID">>,
   <<"AWAITING_PAYMENT", "CANCELLED">>, <<"AWAITING_PAYMENT", "EXPIRED">>,
   <<"PAID", "REFUNDED">>}

\* C2: through every entry point an order's status changes only along
\* PENDING -> {AWAITING_PAYMENT, CANCELLED, EXPIRED},
\* AWAITING_PAYMENT -> {PAID, CANCELLED, EXPIRED}, PAID -> REFUNDED.
C2_OnlyAllowedTransitions ==
  [][\A o \in OrderIds :
       orders'[o].status # orders[o].status
         => <<orders[o].status, orders'[o].status>> \in AllowedTransitions]_vars

\* C3: a deny or cancel notification processed after a settlement notification
\* of the same order leaves the order PAID and its payment SETTLED.
C3_CancelAfterSettlementKeepsPaid ==
  [][\A o \in OrderIds :
       (/\ orders[o].status = "PAID"
        /\ LastNotification(o) # <<>>
        /\ PaymentStatusFor(LastNotification(o)[1]) = "SETTLED"
        /\ payments[o][1].status = "SETTLED"
        /\ WebhookStepOn(o)
        /\ LastNotification(o)'[1].transaction_status \in {"deny", "cancel"})
       => /\ orders'[o].status = "PAID"
          /\ payments'[o][1].status = "SETTLED"]_vars

TerminalStatuses == {"PAID", "CANCELLED", "EXPIRED", "REFUNDED"}

\* C4: no webhook notification moves an order that is in a terminal status
\* (PAID, CANCELLED, EXPIRED, REFUNDED) back to PENDING or AWAITING_PAYMENT.
C4_WebhookNeverRegressesTerminal ==
  [][\A o \in OrderIds :
       (orders[o].status \in TerminalStatuses /\ WebhookStepOn(o))
         => orders'[o].status \notin {"PENDING", "AWAITING_PAYMENT"}]_vars

\* C5: for every ticket type, in every reachable state,
\* 0 <= quotaSold <= quotaTotal.
C5_QuotaSoldWithinTotal ==
  \A t \in TicketTypeIds :
    /\ 0 <= ticketTypes[t].quotaSold
    /\ ticketTypes[t].quotaSold <= ticketTypes[t].quotaTotal

\* C6: for every order, whichever entry point created it, grossAmount is the
\* sum of the subtotals of its items and each subtotal is unitPrice x qty.
C6_GrossAmountIsSumOfSubtotals ==
  \A o \in OrderIds :
    /\ orders[o].grossAmount = SumSubtotals(orders[o].orderItems)
    /\ \A i \in DOMAIN orders[o].orderItems :
         orders[o].orderItems[i].subtotal =
           orders[o].orderItems[i].unitPrice * orders[o].orderItems[i].qty

\* C10: a cancel request (REST or GraphQL) that names an existing order
\* cancels it only when its status is PENDING; for every other status the
\* request fails and the status is unchanged.
C10_CancelOnlyFromPending ==
  [][\A o \in OrderIds :
       (last'.op \in {"cancelOrder", "gqlCancelOrder"} /\ last'.id = o)
         => IF orders[o].status = "PENDING"
              THEN last'.code = 200 => orders'[o].status = "CANCELLED"
              ELSE /\ last'.code # 200
                   /\ orders'[o].status = orders[o].status]_vars

\* this step is a use request (REST or GraphQL) for the existing ticket c
UseStepOn(c) ==
  last'.op \in {"useTicket", "gqlUseTicket"} /\ last'.id = c

\* this step is a void request for the existing ticket c
VoidStepOn(c) ==
  last'.op = "gqlVoidTicket" /\ last'.id = c

\* C8: redeeming a ticket by code succeeds at most once: a use request on an
\* ISSUED ticket sets status USED and usedAt; a use request on a ticket that
\* was already used fails and leaves status and usedAt as they were.
C8_UseSucceedsAtMostOnce ==
  [][\A c \in DOMAIN tickets :
       UseStepOn(c) =>
         /\ tickets[c].status = "ISSUED"
              => /\ last'.code = 200
                 /\ tickets'[c].status = "USED"
                 /\ tickets'[c].usedAt = <<now>>
         /\ tickets[c].status = "USED"
              => /\ last'.code # 200
                 /\ tickets'[c].status = tickets[c].status
                 /\ tickets'[c].usedAt = tickets[c].usedAt]_vars

\* C9: a ticket's status changes only ISSUED -> USED and ISSUED -> VOID, and
\* a use or void request on a ticket that is not ISSUED fails and leaves the
\* ticket unchanged.
C9_TicketTransitionsOnlyFromIssued ==
  [][\A c \in DOMAIN tickets :
       /\ tickets'[c].status # tickets[c].status
            => /\ tickets[c].status = "ISSUED"
               /\ tickets'[c].status \in {"USED", "VOID"}
       /\ ((UseStepOn(c) \/ VoidStepOn(c)) /\ tickets[c].status # "ISSUED")
            => /\ last'.code # 200
               /\ tickets'[c] = tickets[c]]_vars

\* C7: a price change of a ticket type leaves the unitPrice and subtotal of
\* the items of every existing order and the order's grossAmount unchanged;
\* an order created by POST /orders carries the prices of its creation time,
\* and payment initiation sends the gateway the order's stored amounts.
C7_PriceSnapshotIsFrozen ==
  [][/\ \A o \in OrderIds :
          /\ orders'[o].orderItems = orders[o].orderItems
          /\ orders'[o].grossAmount = orders[o].grossAmount
     /\ (last'.op = "createOrder" /\ last'.code = 201)
          => LET new == orders'[Len(orders')]
             IN /\ \A i \in DOMAIN new.orderItems :
                     /\ new.orderItems[i].unitPrice =
                          ticketTypes[new.orderItems[i].ticketTypeId].price
                     /\ new.orderItems[i].subtotal =
                          new.orderItems[i].unitPrice * new.orderItems[i].qty
                /\ new.grossAmount = SumSubtotals(new.orderItems)
     /\ (last'.op = "createPayment" /\ last'.sent # <<>>)
          => LET order == orders[last'.id]
                 sent == last'.sent[1]
             IN /\ sent.gross_amount = order.grossAmount
                /\ DOMAIN sent.item_prices = DOMAIN order.orderItems
                /\ \A i \in DOMAIN order.orderItems :
                     sent.item_prices[i] = order.orderItems[i].unitPrice]_vars

\* a payment was initiated for an order of ticket type B bought at the
\* regular price, after B's price was raised
C7_Witness ==
  /\ last.op = "createPayment" /\ last.code = 200
  /\ last.id \in OrderIds
  /\ orders[last.id].orderItems[1].ticketTypeId = "B"
  /\ orders[last.id].orderItems[1].unitPrice = PriceRegular
  /\ ticketTypes["B"].price = PriceVIP
  /\ last.sent[1].item_prices[1] = PriceRegular
  /\ last.sent[1].gross_amount = orders[last.id].grossAmount

ReadOps == {"getOrders", "getOrder", "getPayment", "gqlOrder", "gqlUserOrders"}

\* C11: a read of an order (get order, list orders, get payment status) made
\* after the order's expiresAt has passed never shows it as PENDING or
\* AWAITING_PAYMENT: an order stored in one of these is shown as EXPIRED.
C11_ReadsShowExpired ==
  [][last'.op \in ReadOps =>
       \A i \in DOMAIN last'.body :
         LET o == last'.body[i].id
         IN now > orders[o].expiresAt
              => /\ last'.body[i].status \notin {"PENDING", "AWAITING_PAYMENT"}
                 /\ orders[o].status \in {"PENDING", "AWAITING_PAYMENT"}
                      => last'.body[i].status = "EXPIRED"]_vars

\* this step is a cancel request (REST or GraphQL) for the existing order o
CancelStepOn(o) ==
  last'.op \in {"cancelOrder", "gqlCancelOrder"} /\ last'.id = o

\* C12: for an order that was created, never had a payment initiated and
\* whose expiresAt has passed, a cancel request fails with the invalid-state
\* error (400) and the order does not become CANCELLED.
C12_CancelAfterExpiryFails ==
  [][\A o \in OrderIds :
       (/\ CancelStepOn(o)
        /\ payments[o] = NoPayment
        /\ orders[o].status \in {"PENDING", "EXPIRED"}
        /\ now > orders[o].expiresAt)
       => /\ last'.code = 400
          /\ orders'[o].status # "CANCELLED"]_vars

\* this step is a payment initiation by the owner of the existing order o
InitiationStepOn(o) ==
  last'.op = "createPayment" /\ last'.id = o /\ last'.code # 404

\* C13: payment initiation calls the gateway and succeeds only if the order
\* is PENDING and now < expiresAt; in every other case (status not PENDING,
\* or now >= expiresAt) it fails with the invalid-state error (400), nothing
\* is sent to the gateway and the order's Payment row is left as it was.
C13_InitiationOnlyPendingBeforeExpiry ==
  [][\A o \in OrderIds :
       InitiationStepOn(o) =>
         IF orders[o].status = "PENDING" /\ now < orders[o].expiresAt
           THEN TRUE
           ELSE /\ last'.code = 400
                /\ last'.sent = <<>>
                /\ payments'[o] = payments[o]]_vars

\* C14: after a successful payment initiation the order is AWAITING_PAYMENT
\* and it has exactly one Payment row, whose status is PENDING and whose
\* snapToken is the token the gateway returned, which is also the token in
\* the response.
C14_InitiationStoresToken ==
  [][\A o \in OrderIds :
       (InitiationStepOn(o) /\ last'.code = 200)
         => /\ orders'[o].status = "AWAITING_PAYMENT"
            /\ Len(payments'[o]) = 1
            /\ payments'[o][1].status = "PENDING"
            /\ last'.body # <<>>
            /\ payments'[o][1].snapToken = last'.body[1]
            /\ payments'[o][1].snapToken \in GatewayTokens]_vars

\* an initiation succeeded for an order that already had a Payment row (the
\* provider had reported its transaction as pending) and the row now holds
\* the token of this initiation
C14_Witness ==
  /\ last.op = "createPayment" /\ last.code = 200
  /\ last.id \in OrderIds
  /\ orders[last.id].status = "AWAITING_PAYMENT"
  /\ payments[last.id] # NoPayment
  /\ payments[last.id][1].transactionStatus = "pending"
  /\ payments[last.id][1].snapToken = "snap-2"
  /\ last.body = <<"snap-2">>

\* the notification this webhook step was given
Notification == last'.req[1]

StoreUnchanged == UNCHANGED <<orders, payments, tickets, ticketTypes>>

\* C15: a webhook notification without a valid provider signature is
\* rejected and changes no state: orders, Payment rows, tickets and quotaSold
\* are the same before and after it, whatever transaction_status it names.
C15_UnsignedNotificationRejected ==
  [][(last'.op = "webhook" /\ Notification.signature_key # ProviderSignature)
       => /\ last'.code # 200
          /\ StoreUnchanged]_vars

\* C16: a processed notification on an order in AWAITING_PAYMENT sets
\* (Payment.status, Order.status) as the mapping table says: capture or
\* settlement with fraud accept or absent -> (SETTLED, PAID); capture or
\* settlement with another fraud verdict -> (FAILED, CANCELLED); pending ->
\* (PENDING, AWAITING_PAYMENT); deny or cancel -> (CANCELLED, CANCELLED);
\* expire -> (EXPIRED, EXPIRED); and on an order in PAID, refund ->
\* (CANCELLED, REFUNDED).
C16_WebhookAppliesMappingTable ==
  [][\A o \in OrderIds :
       (WebhookStepOn(o) /\ last'.code = 200)
         => LET ts == Notification.transaction_status
                fraud == Notification.fraud_status
                target == <<payments'[o][1].status, orders'[o].status>>
            IN /\ orders[o].status = "AWAITING_PAYMENT"
                    => /\ (ts \in {"capture", "settlement"}
                             /\ fraud \in {"accept", Undef})
                            => target = <<"SETTLED", "PAID">>
                       /\ (ts \in {"capture", "settlement"}
                             /\ fraud \notin {"accept", Undef})
                            => target = <<"FAILED", "CANCELLED">>
                       /\ ts = "pending"
                            => target = <<"PENDING", "AWAITING_PAYMENT">>
                       /\ ts \in {"deny", "cancel"}
                            => target = <<"CANCELLED", "CANCELLED">>
                       /\ ts = "expire"
                            => target = <<"EXPIRED", "EXPIRED">>
               /\ (orders[o].status = "PAID" /\ ts = "refund")
                    => target = <<"CANCELLED", "REFUNDED">>]_vars

\* a capture with fraud verdict deny was processed for an order whose
\* payment had been initiated: the payment is FAILED, the order CANCELLED
C16_Witness ==
  /\ last.op = "webhook" /\ last.code = 200
  /\ last.req[1].transaction_status = "capture"
  /\ last.req[1].fraud_status = "deny"
  /\ \E o \in OrderIds :
       /\ MidtransRef(o) = last.id
       /\ payments[o][1].snapToken \in Tokens
       /\ payments[o][1].status = "FAILED"
       /\ orders[o].status = "CANCELLED"
       /\ TicketsOfOrder(o) = {}

\* C17: a webhook notification whose order_id matches no order's external
\* reference changes no state and is acknowledged with a success response
\* (200), so that the provider does not retry.
C17_UnknownOrderAcknowledged ==
  [][(last'.op = "webhook" /\ FindByMidtransOrderId(last'.id) = {})
       => /\ StoreUnchanged
          /\ last'.code = 200]_vars

\* C18: for every webhook notification that resolves to an existing order,
\* when the handler has finished (with success or with failure) the order's
\* Payment row holds that notification as its raw payload.
C18_RawPayloadAlwaysStored ==
  [][\A o \in OrderIds :
       (last'.op = "webhook" /\ last'.id = MidtransRef(o))
         => /\ payments'[o] # NoPayment
            /\ payments'[o][1].rawPayloadJson = <<Notification>>]_vars

\* total quantity ordered of ticket type t
RECURSIVE QtyOfType(_, _)
QtyOfType(items, t) ==
  IF items = <<>> THEN 0
  ELSE (IF Head(items).ticketTypeId = t THEN Head(items).qty ELSE 0)
         + QtyOfType(Tail(items), t)

\* C19: when an order first reaches (Payment SETTLED, Order PAID) through the
\* webhook (here: by the first notification processed for it), the tickets
\* of the order are, for each of its items, exactly qty tickets of the item's
\* ticket type, each ISSUED with usedAt unset and referencing the order, its
\* user and its concert; their number is the sum of qty over the items.
C19_FirstSettlementIssuesQtyTickets ==
  [][\A o \in OrderIds :
       (/\ WebhookStepOn(o) /\ last'.code = 200
        /\ LastNotification(o) = <<>>
        /\ payments'[o][1].status = "SETTLED"
        /\ orders'[o].status = "PAID")
       => /\ \A i \in DOMAIN orders[o].orderItems :
               LET t == orders[o].orderItems[i].ticketTypeId
               IN Cardinality(TicketsOfOrder(o)' \cap TicketsOfType(t)')
                    = QtyOfType(orders[o].orderItems, t)
          /\ \A c \in TicketsOfOrder(o)' :
               /\ tickets'[c].status = "ISSUED"
               /\ tickets'[c].usedAt = <<>>
               /\ tickets'[c].userId = orders[o].userId
               /\ tickets'[c].concertId = orders[o].concertId
          /\ TicketCount(o)' = SumQty(orders[o].orderItems)]_vars

\* C20: every order created by a successful create-order request (REST or
\* GraphQL) has status PENDING, expiresAt = creation time + the 15-minute
\* TTL, and an external reference no other order has.
C20_NewOrderPendingWithTTL ==
  [][(last'.op \in {"createOrder", "gqlCreateOrder"} /\ last'.code \in {200, 201})
       => LET new == orders'[last'.id]
          IN /\ new.status = "PENDING"
             /\ new.expiresAt = now + OrderTTL
             /\ \A o \in DOMAIN orders' :
                  o # last'.id => orders'[o].midtransOrderId # new.midtransOrderId]_vars

\* the body of this create-order request
OrderRequest == last'.req[1]

\* C21: a create-order request in which some line's ticket type belongs to
\* another concert than the request's concertId, or whose quantity exceeds
\* the ticket type's remaining quota (quotaTotal - quotaSold), fails with the
\* invalid-input error (400) and creates no order.
C21_ForeignOrOversoldLineRejected ==
  [][(/\ last'.op = "createOrder"
      /\ \E i \in DOMAIN OrderRequest.items :
           LET line == OrderRequest.items[i]
           IN /\ line.ticketTypeId \in DOMAIN ticketTypes
              /\ \/ ticketTypes[line.ticketTypeId].concertId # OrderRequest.concertId
                 \/ line.qty > ticketTypes[line.ticketTypeId].quotaTotal
                                 - ticketTypes[line.ticketTypeId].quotaSold)
       => /\ last'.code = 400
          /\ orders' = orders]_vars

\* C22: a create-order request that fails (empty or missing items, missing
\* concertId, a line naming an unknown ticket type, a storage failure)
\* leaves the Order and OrderItem rows as they were; a request that succeeds
\* adds one order with an item for every line of the request.
C22_OrderCreationAllOrNothing ==
  [][last'.op = "createOrder" =>
       IF last'.code = 201
         THEN /\ Len(orders') = Len(orders) + 1
              /\ SubSeq(orders', 1, Len(orders)) = orders
              /\ LET new == orders'[Len(orders')]
                 IN /\ DOMAIN new.orderItems = DOMAIN OrderRequest.items
                    /\ \A i \in DOMAIN new.orderItems :
                         /\ new.orderItems[i].ticketTypeId
                              = OrderRequest.items[i].ticketTypeId
                         /\ new.orderItems[i].qty = OrderRequest.items[i].qty
         ELSE orders' = orders]_vars

\* a well-formed create-order request of two lines was answered 400 because
\* the store failed, and no order exists
C22_Witness ==
  /\ last.op = "createOrder" /\ last.code = 400
  /\ last.req[1].concertId = "c1"
  /\ Len(last.req[1].items) = 2
  /\ \A i \in DOMAIN last.req[1].items :
       last.req[1].items[i].ticketTypeId \in DOMAIN ticketTypes
  /\ orders = <<>>

\* both webhook requests have finished processing a settlement of order o,
\* and they were in flight together
ProcessedTogether(o) ==
  \A d \in Deliveries :
    /\ deliveries[d].pc = "done"
    /\ deliveries[d].o = o
    /\ deliveries[d].overlapped
    /\ PaymentStatusFor(deliveries[d].n[1]) = "SETTLED"

\* C23: when two deliveries of a settlement notification of the same order
\* are processed concurrently, at most one of them issues tickets and
\* increments quotaSold: afterwards the order has exactly sum-of-qty tickets
\* and each ticket type's quotaSold has grown by the order's qty for it.
C23_ConcurrentSettlementsIssueOnce ==
  \A o \in OrderIds :
    ProcessedTogether(o)
      => /\ TicketCount(o) = SumQty(orders[o].orderItems)
         /\ \A t \in TicketTypeIds :
              ticketTypes[t].quotaSold
                = DefaultQuotaSold + QtyOfType(orders[o].orderItems, t)

\* C24: for every order the number of its tickets is 0 or the sum of qty over
\* its items, and tickets are added to an order only by a step that leaves it
\* PAID; on every path that creates tickets (webhook settlement and
\* updateOrderStatus to PAID, any number of times).
C24_TicketCountZeroOrSumQty ==
  [][\A o \in DOMAIN orders' :
       /\ TicketCount(o)' \in {0, SumQty(orders'[o].orderItems)}
       /\ TicketCount(o)' # TicketCount(o) => orders'[o].status = "PAID"]_vars

\* C27: for every ticket type, quotaSold exceeds its initial value by the
\* number of tickets of that type that have been issued, on every path
\* (webhook, updateOrderStatus) and across failures between the writes.
C27_QuotaSoldCountsTickets ==
  \A t \in TicketTypeIds :
    ticketTypes[t].quotaSold - DefaultQuotaSold = Cardinality(TicketsOfType(t))

\* C26: if processing a notification fails at any step (Payment upsert, Order
\* update, ticket creation, a quotaSold increment), Payment status, Order
\* status, the order's tickets and every quotaSold are as they were before
\* the notification.
C26_FailedSettlementChangesNothing ==
  [][(last'.op = "webhook" /\ last'.code = 500) => StoreUnchanged]_vars

\* C25: payment initiation writes the order's status and the Payment row as
\* one atomic step: in no reachable state, one left by a storage failure
\* between the two writes included, is an order AWAITING_PAYMENT without a
\* Payment row, or a Payment row created by initiation with its order still
\* PENDING.
C25_InitiationWritesAtomic ==
  \A o \in OrderIds :
    /\ ~(orders[o].status = "AWAITING_PAYMENT" /\ payments[o] = NoPayment)
    /\ ~(/\ payments[o] # NoPayment
         /\ payments[o][1].snapToken # Undef
         /\ orders[o].status = "PENDING")

\* C30: if the gateway call fails during payment initiation the order stays
\* PENDING and its Payment row is neither created nor modified, and the same
\* initiation retried while now < expiresAt succeeds when the gateway
\* answers.
C30_GatewayFailureLeavesOrderRetryable ==
  [][\A o \in OrderIds :
       /\ (InitiationStepOn(o) /\ last'.code = 500)
            => /\ orders'[o] = orders[o]
               /\ orders'[o].status = "PENDING"
               /\ payments'[o] = payments[o]
       /\ (/\ last.op = "createPayment" /\ last.code = 500 /\ last.id = o
           /\ InitiationStepOn(o)
           /\ now < orders[o].expiresAt
           /\ last'.code # 500)
            => /\ last'.code = 200
               /\ orders'[o].status = "AWAITING_PAYMENT"
               /\ payments'[o] # NoPayment]_vars

\* the gateway failed for an initiation on a PENDING order before its
\* expiry: the order is still PENDING and has no Payment row
C30_Witness ==
  /\ last.op = "createPayment" /\ last.code = 500
  /\ last.sent # <<>>
  /\ last.id \in OrderIds
  /\ orders[last.id].status = "PENDING"
  /\ payments[last.id] = NoPayment
  /\ now < orders[last.id].expiresAt

\* C29: after a ticket is created no operation changes its orderId, userId,
\* concertId or ticketTypeId, and the ticket keeps its code (its position in
\* the table); a use changes only status and usedAt, a void only status.
C29_TicketRowsImmutable ==
  [][\A c \in DOMAIN tickets :
       /\ tickets'[c].orderId = tickets[c].orderId
       /\ tickets'[c].userId = tickets[c].userId
       /\ tickets'[c].concertId = tickets[c].concertId
       /\ tickets'[c].ticketTypeId = tickets[c].ticketTypeId
       /\ UseStepOn(c)
            => tickets'[c] = [tickets[c] EXCEPT !.status = tickets'[c].status,
                                                !.usedAt = tickets'[c].usedAt]
       /\ VoidStepOn(c)
            => tickets'[c] = [tickets[c] EXCEPT !.status = tickets'[c].status]]_vars

\* a ticket that had been used was voided: it is VOID and still carries the
\* usedAt of its use
C29_Witness ==
  /\ last.op = "gqlVoidTicket" /\ last.code = 200
  /\ last.id \in DOMAIN tickets
  /\ tickets[last.id].status = "VOID"
  /\ tickets[last.id].usedAt # <<>>

\* C28: every order that reaches PAID eventually has its full batch of
\* tickets, one per unit of quantity, also when a write of the settlement
\* fails after the PAID status was written.
C28_PaidOrderEventuallyHasTickets ==
  \A o \in RequestOrderIds :
    (o \in OrderIds /\ orders[o].status = "PAID")
      ~> (o \in OrderIds /\ TicketCount(o) = SumQty(orders[o].orderItems))

\* C31: in every state an order is PAID only if its Payment row exists with
\* status SETTLED, and an order has tickets only if it has a Payment row (on
\* which the settlement was recorded).
C31_PaidOnlyWithSettledPayment ==
  \A o \in OrderIds :
    /\ orders[o].status = "PAID"
         => /\ payments[o] # NoPayment
            /\ payments[o][1].status = "SETTLED"
    /\ TicketCount(o) > 0 => payments[o] # NoPayment

\* C32: a webhook notification whose transaction_status is none of capture,
\* settlement, pending, deny, cancel, expire, refund leaves the order's status
\* and the status of its Payment row as they were.
C32_UnrecognisedStatusChangesNothing ==
  [][\A o \in OrderIds :
       (/\ WebhookStepOn(o)
        /\ Notification.transaction_status \notin RecognisedTransactionStatuses)
         => /\ orders'[o].status = orders[o].status
            /\ payments[o] # NoPayment
                 => payments'[o][1].status = payments[o][1].status]_vars

\* C33: a ticket of an order whose status is REFUNDED or CANCELLED is never
\* redeemed: a use request for it, by REST or GraphQL, does not succeed and
\* leaves the ticket as it was.
C33_RefundedTicketNotRedeemable ==
  [][\A c \in DOMAIN tickets :
       (/\ UseStepOn(c)
        /\ orders[tickets[c].orderId].status \in {"REFUNDED", "CANCELLED"})
         => /\ last'.code # 200
            /\ tickets'[c] = tickets[c]]_vars

\* C34: of two use requests for the same ticket code that are processed
\* together, at most one answers success.
C34_ConcurrentUseSucceedsOnce ==
  \A r1, r2 \in Requests :
    (/\ r1 # r2
     /\ requests[r1].op = "useTicket" /\ requests[r2].op = "useTicket"
     /\ requests[r1].id = requests[r2].id)
      => ~(requests[r1].code = 200 /\ requests[r2].code = 200)

\* C35: when a cancel request and a payment initiation for the same order
\* have both answered, they have not both succeeded; after a successful
\* cancel the order is not AWAITING_PAYMENT, and after a successful
\* initiation (gateway transaction and PENDING Payment row created) the
\* order is not CANCELLED.
C35_CancelAndPayExcludeEachOther ==
  \A c, p \in Requests :
    (/\ requests[c].op = "cancelOrder" /\ requests[c].pc = "done"
     /\ requests[p].op = "createPayment" /\ requests[p].pc = "done"
     /\ requests[c].id = requests[p].id
     /\ requests[c].id \in OrderIds)
      => /\ ~(requests[c].code = 200 /\ requests[p].code = 200)
         /\ requests[c].code = 200
              => orders[requests[c].id].status # "AWAITING_PAYMENT"
         /\ requests[p].code = 200
              => orders[requests[p].id].status # "CANCELLED"

\* C36: in every state a ticket's usedAt is set exactly when its status is
\* USED: ISSUED and VOID tickets have no usedAt.
C36_UsedAtIffUsed ==
  \A c \in DOMAIN tickets :
    (tickets[c].usedAt # <<>>) <=> (tickets[c].status = "USED")

\* a REST request by user u naming order o
OwnedRouteStep(u, o) ==
  \/ GetOrder(u, o)
  \/ CancelOrderREST(u, o)
  \/ \E token \in Tokens : CreatePayment(u, o, TRUE, token)
  \/ GetPayment(u, o)

\* C37: a get-order, cancel-order, create-payment or get-payment request
\* naming an order of another user answers not-found, sends nothing to the
\* gateway, returns no data and changes no order, Payment row, ticket or
\* ticket type.
C37_OnlyOwnerReachesOrder ==
  [][\A u \in Users, o \in OrderIds :
       (orders[o].userId # u /\ OwnedRouteStep(u, o))
         => /\ last'.code = 404
            /\ last'.sent = <<>>
            /\ last'.body = <<>>
            /\ StoreUnchanged]_vars

\* the last request named an existing order with a Payment row and was
\* answered not-found: its caller is not the owner
C37_Witness ==
  /\ last.op \in {"getOrder", "cancelOrder", "createPayment", "getPayment"}
  /\ last.id \in OrderIds
  /\ last.code = 404
  /\ payments[last.id] # NoPayment
  /\ orders[last.id].status = "AWAITING_PAYMENT"
====
